---- MODULE Spec2Model ----
(***************************************************************************)
(* DocumentService (projects/docs-app/src/app/documents/document.service.ts)*)
(*                                                                         *)
(* The service keeps a Map from document id to the observable of an        *)
(* AsyncSubject.  getDocument(url) creates the entry on first use by       *)
(* fetchDocument(id), which issues one HTTP GET and pipes it through       *)
(* map / tap / catchError into the subject.  currentDocument is            *)
(* location.currentPath piped through switchMap(getDocument).              *)
(*                                                                         *)
(* One event turn of the single-threaded runtime is one action: a path     *)
(* emitted by the location service (Navigate) or the answer of the         *)
(* transport to one outstanding GET (Respond).  Everything a turn calls    *)
(* synchronously (cache update, nested getDocument, completion of the      *)
(* subject and of the subjects chained to it, emission on the stream) is   *)
(* part of that action.                                                    *)
(***************************************************************************)
EXTENDS Integers, Sequences, FiniteSets, TLC

\* ------------------------------------------------------------------ bounds
\* Number of paths the location service emits in one run.
MaxNav == 3

\* ------------------------------------------------------- program constants
FILE_NOT_FOUND_ID == "file-not-found"
FETCHING_ERROR_ID == "fetching-error"
CONTENT_URL_PREFIX == "content/"
DOC_CONTENT_URL_PREFIX == CONTENT_URL_PREFIX \o "docs/"
FETCHING_ERROR_CONTENTS ==
  "\n  <div class=\"nf-container l-flex-wrap flex-center\">\n    <div class=\"nf-icon material-icons\">error_outline</div>\n    <div class=\"nf-response l-flex-wrap\">\n      <h1 class=\"no-toc\">Request for document failed.</h1>\n      <p>\n        We are unable to retrieve the \"<current-location></current-location>\" page at this time.\n        Please check your connection and try again later.\n      </p>\n    </div>\n  </div>\n"

\* const indexMap = {...} of fetchDocument
indexMap ==
  [k \in {"guide/store", "guide/effects", "guide/entity", "guide/router-store",
          "guide/store-devtools", "guide/data", "guide/schematics"}
     |-> k \o "/index"]

\* const placeholders = ['resources', 'events'] of fetchDocument
placeholders == <<"resources", "events">>

\* ------------------------------------------------------------ environment
\* Paths the location service may emit ('' is the site root).
Paths == {"", "resources", "events", FILE_NOT_FOUND_ID}

\* Values location.getBaseHref() may return.
BaseHrefs == {"/"}

\* Bodies the transport may deliver with a successful answer.
Texts == {"# Title", ""}

\* What the transport may answer to a GET: a body, or an HttpErrorResponse.
Responses ==
  {[status |-> 200, body |-> t] : t \in Texts}
    \cup {[status |-> 404, body |-> ""], [status |-> 500, body |-> ""]}

\* The value of a JavaScript null contents field.
Null == "null"

\* markdownService.compile(data): the rendering collaborator.  It renders a
\* non-empty text to markup and yields no value for an empty one.
Compile(data) == IF data = "" THEN Null ELSE "<p>" \o data \o "</p>"

VARIABLES
  baseHref,   \* this.baseHref
  cache,      \* this.cache: function from the ids that have an entry to a subject
  subjects,   \* the AsyncSubjects created by fetchDocument, in creation order
  requests,   \* the GETs issued through this.http, in issue order, each with
              \* the answer of the transport once it has come
  navs,       \* the paths emitted by location.currentPath, with the observable
              \* getDocument returned for each
  inners,     \* the inner subscriptions of switchMap that are still open
  emitted     \* what currentDocument has emitted

vars == <<baseHref, cache, subjects, requests, navs, inners, emitted>>

\* ------------------------------------------------------------------ values
\* A DocumentContents object.
Document(id, contents) == [id |-> id, contents |-> contents]

\* url || 'index' of getDocument
IdOf(url) == IF url = "" THEN "index" ELSE url

\* The ids a run can ask for.
Ids == {IdOf(p) : p \in Paths} \cup {FILE_NOT_FOUND_ID}

\* The service's mutable state as one value, threaded through the calls of a turn.
St == [cache |-> cache, subjects |-> subjects, requests |-> requests]

\* What a call returns: the state it leaves and its return value.
Result(st, ret) == [st |-> st, ret |-> ret]

\* Observables handed to catchError's subscriber: the observable of a subject
\* of the cache, of(doc), or one that raises.
OfSubject(k) == [kind |-> "subject", ref |-> k, doc |-> <<>>]
Of(doc) == [kind |-> "of", ref |-> 0, doc |-> <<doc>>]
Throw == [kind |-> "throw", ref |-> 0, doc |-> <<>>]

\* ------------------------------------------------------------ AsyncSubject
\* new AsyncSubject<DocumentContents>() for id, subscribed to the GET pipe.
NewSubject(id) ==
  [id |-> id, state |-> "pending", value |-> <<>>, source |-> "http", inner |-> 0]

\* The subject whose completion subject t is waiting for: t itself while its
\* GET is outstanding, else the subject its catchError handler returned.
RECURSIVE Root(_, _)
Root(subs, t) ==
  IF subs[t].source = "inner" THEN Root(subs, subs[t].inner) ELSE t

\* subject.next(doc); subject.complete() on subject s: s latches doc, and so
\* does, in the same turn, every subject whose pipe is subscribed to s.
complete(subs, s, doc) ==
  [t \in DOMAIN subs |->
     IF subs[t].state = "pending" /\ Root(subs, t) = s
       THEN [subs[t] EXCEPT !.state = "done", !.value = <<doc>>, !.source = "none"]
       ELSE subs[t]]

\* subject.error(e) on subject s, passed on to the subjects subscribed to s.
error(subs, s) ==
  [t \in DOMAIN subs |->
     IF subs[t].state = "pending" /\ Root(subs, t) = s
       THEN [subs[t] EXCEPT !.state = "error", !.source = "none"]
       ELSE subs[t]]

\* A subject without replay: a late subscriber is handed nothing.
subscribeNoReplay(subs, k) == <<>>

\* What subscribing to subject k delivers at once: the latched value when k
\* has completed, nothing while it is pending.
subscribe(subs, k) == IF subs[k].state = "done" THEN subs[k].value ELSE <<>>

\* ------------------------------------------------------ Identifier Resolver
\* The properties an object literal inherits from Object.prototype, each with
\* the text a template literal renders it to.
ObjectPrototype ==
  [k \in {"constructor", "hasOwnProperty", "isPrototypeOf", "propertyIsEnumerable",
          "toLocaleString", "toString", "valueOf"}
     |-> "function " \o (IF k = "constructor" THEN "Object" ELSE k)
           \o "() { [native code] }"]
    @@ [k \in {"__proto__"} |-> "[object Object]"]

\* indexMap[id]: the own property of that name, else the inherited one, else
\* undefined (the empty sequence).
Lookup(id) ==
  IF id \in DOMAIN indexMap THEN <<indexMap[id]>>
  ELSE IF id \in DOMAIN ObjectPrototype THEN <<ObjectPrototype[id]>>
  ELSE <<>>

\* let doc = id; if (indexMap[id]) ... else if (placeholder) ...
sourceDoc(id) ==
  IF Lookup(id) # <<>> THEN Lookup(id)[1]
  ELSE IF \E i \in DOMAIN placeholders : placeholders[i] = id THEN "placeholder"
  ELSE id

\* `${this.baseHref}${DOC_CONTENT_URL_PREFIX}${doc}.md`
requestPath(id) == baseHref \o DOC_CONTENT_URL_PREFIX \o sourceDoc(id) \o ".md"

\* -------------------------------------------------------- Fetch Coordinator
\* fetchDocument(id): a new subject and one GET whose pipe feeds it.
fetchDocument(st, id) ==
  LET k == Len(st.subjects) + 1 IN
  Result([st EXCEPT
            !.subjects = Append(@, NewSubject(id)),
            !.requests = Append(@, [path |-> requestPath(id), subject |-> k,
                                    status |-> 0, body |-> ""])],
         k)

\* A getDocument that keys the cache by the source document: ids read from
\* the same source share the entry of the first of them.
getDocumentBySource(st, url) ==
  LET id  == IdOf(url)
      key == CHOOSE i \in DOMAIN st.cache :
               /\ sourceDoc(i) = sourceDoc(id)
               /\ \A j \in DOMAIN st.cache :
                    sourceDoc(j) = sourceDoc(id) /\ st.cache[j] # 0 => st.cache[i] # 0
  IN  IF st.cache[key] = 0
        THEN LET f == fetchDocument(st, id) IN
             Result([f.st EXCEPT !.cache[id] = f.ret], f.ret)
        ELSE Result(st, st.cache[key])

\* A getDocument that does not consult the cache.
getDocumentAlwaysFetch(st, url) ==
  LET id == IdOf(url)
      f  == fetchDocument(st, id)
  IN  Result([f.st EXCEPT !.cache[id] = f.ret], f.ret)

\* A getDocument that reuses an entry only while its fetch is in flight.
getDocumentInFlightOnly(st, url) ==
  LET id == IdOf(url) IN
  IF st.cache[id] = 0 \/ st.subjects[st.cache[id]].state # "pending"
    THEN LET f == fetchDocument(st, id) IN
         Result([f.st EXCEPT !.cache[id] = f.ret], f.ret)
    ELSE Result(st, st.cache[id])

\* getDocument(url): the cache entry of the id, created by fetchDocument when absent.
getDocument(st, url) ==
  LET id == IdOf(url) IN
  IF st.cache[id] = 0
    THEN LET f == fetchDocument(st, id) IN
         Result([f.st EXCEPT !.cache[id] = f.ret], f.ret)
    ELSE Result(st, st.cache[id])

\* ----------------------------------------------------- Error Recovery Policy
\* A not-found branch that answers every id with the built-in document.
getFileNotFoundDocBuiltIn(st, id) ==
  Result(st, Of(Document(FILE_NOT_FOUND_ID, "Document not found")))

\* A not-found branch that also evicts the missing id.
getFileNotFoundDocEvicting(st, id) ==
  IF id # FILE_NOT_FOUND_ID
    THEN LET g == getDocument([st EXCEPT !.cache[id] = 0], FILE_NOT_FOUND_ID)
         IN  Result(g.st, OfSubject(g.ret))
    ELSE Result(st, Of(Document(FILE_NOT_FOUND_ID, "Document not found")))

\* A not-found branch that drops the not-found entry and fetches it anew for
\* every id, the not-found id included.
getFileNotFoundDocRetrying(st, id) ==
  LET g == getDocument([st EXCEPT !.cache[FILE_NOT_FOUND_ID] = 0], FILE_NOT_FOUND_ID)
  IN  Result(g.st, OfSubject(g.ret))

\* A not-found branch that fetches the not-found document past the cache.
getFileNotFoundDocUncached(st, id) ==
  IF id # FILE_NOT_FOUND_ID
    THEN LET f == fetchDocument(st, FILE_NOT_FOUND_ID) IN Result(f.st, OfSubject(f.ret))
    ELSE Result(st, Of(Document(FILE_NOT_FOUND_ID, "Document not found")))

getFileNotFoundDoc(st, id) ==
  IF id # FILE_NOT_FOUND_ID
    THEN LET g == getDocument(st, FILE_NOT_FOUND_ID) IN Result(g.st, OfSubject(g.ret))
    ELSE Result(st, Of(Document(FILE_NOT_FOUND_ID, "Document not found")))

\* A generic-error branch that leaves the failed entry in the cache.
getErrorDocNoEvict(st, id, err) ==
  Result(st, Of(Document(FETCHING_ERROR_ID, FETCHING_ERROR_CONTENTS)))

getErrorDoc(st, id, err) ==
  Result([st EXCEPT !.cache[id] = 0],
         Of(Document(FETCHING_ERROR_ID, FETCHING_ERROR_CONTENTS)))

\* A catchError that recovers from 404 alone and lets other failures through.
catchErrorOnly404(st, id, err) ==
  IF err.status = 404 THEN getFileNotFoundDoc(st, id) ELSE Result(st, Throw)

\* A catchError that sends every failure to the generic-error branch.
catchErrorAllGeneric(st, id, err) == getErrorDoc(st, id, err)

\* catchError((error) => error.status === 404 ? ... : ...)
catchError(st, id, err) ==
  IF err.status = 404 THEN getFileNotFoundDoc(st, id) ELSE getErrorDoc(st, id, err)

\* ------------------------------------------------------- Transform Pipeline
\* A map that labels the Document with the name of the source it was read from.
mapSourceId(id, data) == Document(sourceDoc(id), Compile(data))

\* map(data => ({ id, contents: this.markdownService.compile(data) }))
map(id, data) == Document(id, Compile(data))

\* tap's test `!data || typeof data !== 'object'` on the object map built.
Invalid(data) == data \notin [id : STRING, contents : STRING]

\* The pipe of subject s is switched by catchError to observable obs.
subscribeInner(subs, s, obs) ==
  LET got == IF obs.kind = "subject" THEN subscribe(subs, obs.ref) ELSE obs.doc
      linked == [subs EXCEPT ![s].inner = obs.ref]
  IN  IF obs.kind = "throw" THEN error(subs, s)
      ELSE IF got # <<>> THEN complete(linked, s, got[1])
      ELSE IF subs[obs.ref].state = "error" THEN error(linked, s)
      ELSE [linked EXCEPT ![s].source = "inner"]

\* The GET of request r is answered with resp: the whole pipe of lines 85-106.
pipe(st, r, resp) ==
  LET s   == st.requests[r].subject
      id  == st.subjects[s].id
      st1 == [st EXCEPT !.requests[r].status = resp.status,
                        !.requests[r].body = resp.body]
      data == map(id, resp.body)
      failure == IF resp.status = 200 THEN [status |-> 0] ELSE [status |-> resp.status]
  IN  IF resp.status = 200 /\ ~Invalid(data)
        THEN [st1 EXCEPT !.subjects = complete(@, s, data)]
        ELSE LET c == catchError(st1, id, failure) IN
             [c.st EXCEPT !.subjects = subscribeInner(@, s, c.ret)]

\* ---------------------------------------------------------- Document Stream
\* mergeMap: the previous inner subscriptions stay open.
mergeMap(open, new) == Append(open, new)

\* switchMap on a new outer value: the previous inner subscription is
\* unsubscribed and the new one takes its place.
switchMap(open, new) == <<new>>

\* The open inner subscriptions whose subject has latched a value in this
\* turn hand it to currentDocument, in subscription order, and close.
Emissions(subs, open) ==
  LET done == SelectSeq(open, LAMBDA i : subs[i.subject].state = "done") IN
  [j \in 1..Len(done) |->
     [doc |-> subs[done[j].subject].value[1], nav |-> done[j].nav]]

StillOpen(subs, open) == SelectSeq(open, LAMBDA i : subs[i.subject].state = "pending")

\* ------------------------------------------------------------------ actions
Init ==
  /\ baseHref \in BaseHrefs
  /\ cache = [id \in Ids |-> 0]
  /\ subjects = <<>>
  /\ requests = <<>>
  /\ navs = <<>>
  /\ inners = <<>>
  /\ emitted = <<>>

\* A path change that aborts the fetch the stream was waiting for: the
\* entry of the abandoned id is dropped with the subscription.
NavigateAborting(path) ==
  /\ Len(navs) < MaxNav
  /\ LET gone == {subjects[inners[i].subject].id : i \in DOMAIN inners}
         st0  == [St EXCEPT !.cache = [id \in DOMAIN cache |->
                                         IF id \in gone THEN 0 ELSE cache[id]]]
         g    == getDocument(st0, path)
         n    == Len(navs) + 1
         open == switchMap(inners, [nav |-> n, subject |-> g.ret])
         now  == subscribe(g.st.subjects, g.ret)
     IN  /\ cache' = g.st.cache
         /\ subjects' = g.st.subjects
         /\ requests' = g.st.requests
         /\ navs' = Append(navs, [path |-> path, ret |-> g.ret])
         /\ emitted' = IF now = <<>> THEN emitted
                        ELSE Append(emitted, [doc |-> now[1], nav |-> n])
         /\ inners' = IF now = <<>> THEN open
                       ELSE SelectSeq(open, LAMBDA i : i.nav # n)
  /\ UNCHANGED baseHref

\* location.currentPath emits path: switchMap(path => this.getDocument(path)).
Navigate(path) ==
  /\ Len(navs) < MaxNav
  /\ LET g    == getDocument(St, path)
         n    == Len(navs) + 1
         open == switchMap(inners, [nav |-> n, subject |-> g.ret])
         now  == subscribe(g.st.subjects, g.ret)
     IN  /\ cache' = g.st.cache
         /\ subjects' = g.st.subjects
         /\ requests' = g.st.requests
         /\ navs' = Append(navs, [path |-> path, ret |-> g.ret])
         /\ emitted' = IF now = <<>> THEN emitted
                        ELSE Append(emitted, [doc |-> now[1], nav |-> n])
         /\ inners' = IF now = <<>> THEN open
                       ELSE SelectSeq(open, LAMBDA i : i.nav # n)
  /\ UNCHANGED baseHref

\* The transport answers the outstanding GET r with resp.
Respond(r, resp) ==
  /\ r \in DOMAIN requests
  /\ requests[r].status = 0
  /\ LET st2 == pipe(St, r, resp) IN
       /\ cache' = st2.cache
       /\ subjects' = st2.subjects
       /\ requests' = st2.requests
       /\ emitted' = emitted \o Emissions(st2.subjects, inners)
       /\ inners' = StillOpen(st2.subjects, inners)
  /\ UNCHANGED <<baseHref, navs>>

Next ==
  \/ \E path \in Paths : Navigate(path)
  \/ \E r \in DOMAIN requests : \E resp \in Responses : Respond(r, resp)

Spec == Init /\ [][Next]_vars

\* ------------------------------------------------ identifier resolution runs
\* Paths and base hrefs to resolve: the root, alias keys, placeholders, names
\* of sources, plain ids and names every JavaScript object has.
ResolvePaths ==
  {"", "index", "guide/store", "guide/schematics", "guide/store/index",
   "resources", "events", "placeholder", FILE_NOT_FOUND_ID, "constructor"}

ResolveBaseHrefs == {"/", "/docs/"}

InitResolve ==
  /\ baseHref \in ResolveBaseHrefs
  /\ cache = [id \in {IdOf(p) : p \in ResolvePaths} |-> 0]
  /\ subjects = <<>>
  /\ requests = <<>>
  /\ navs = <<>>
  /\ inners = <<>>
  /\ emitted = <<>>

\* Each path is resolved by the getDocument / fetchDocument call of Navigate.
NextResolve == \E path \in ResolvePaths : Navigate(path)

ResolveSpec == InitResolve /\ [][NextResolve]_vars

\* ------------------------------------------------------- reading the state
Pending(k) == subjects[k].state = "pending"
Done(k) == subjects[k].state = "done"

\* The GETs issued so far for id, in a service state.
RequestsFor(st, id) ==
  {r \in DOMAIN st.requests : st.subjects[st.requests[r].subject].id = id}

\* The GETs issued so far for the pipe of subject k.
RequestsOf(k) == {r \in DOMAIN requests : requests[r].subject = k}

\* The status the transport answered the GET of subject k with (0: outstanding).
StatusOf(k) == requests[CHOOSE r \in RequestsOf(k) : TRUE].status

\* This step is the location service emitting a path whose id is id.
NavCall(id) ==
  /\ Len(navs') = Len(navs) + 1
  /\ IdOf(navs'[Len(navs')].path) = id

\* This step is the 404 of subject s calling getDocument(FILE_NOT_FOUND_ID).
ChainCall(s) ==
  /\ s \in DOMAIN subjects
  /\ subjects[s].inner = 0
  /\ subjects'[s].inner # 0

StNext == [cache |-> cache', subjects |-> subjects', requests |-> requests']

\* Every caller holding subject k that has been handed a value was handed
\* the value k latched.
SameForAll(k) ==
  /\ \A s \in DOMAIN subjects :
       subjects[s].inner = k /\ Done(s) => Done(k) /\ subjects[s].value = subjects[k].value
  /\ \A e \in DOMAIN emitted :
       navs[emitted[e].nav].ret = k => Done(k) /\ <<emitted[e].doc>> = subjects[k].value

\* C1: while the fetch of an id is in flight, every getDocument(id) returns
\* the cached subject of that fetch and no further GET is issued for the id;
\* each subject has exactly one GET, and all who hold it receive the one
\* Document it latches.
C1_Step ==
  \A id \in Ids :
    cache[id] # 0 /\ Pending(cache[id]) =>
      /\ NavCall(id) => navs'[Len(navs')].ret = cache[id]
      /\ id = FILE_NOT_FOUND_ID =>
           \A s \in DOMAIN subjects : ChainCall(s) => subjects'[s].inner = cache[id]
      /\ RequestsFor(StNext, id) = RequestsFor(St, id)

C1_Inv ==
  \A k \in DOMAIN subjects : Cardinality(RequestsOf(k)) = 1 /\ SameForAll(k)

C1_Dedup == []C1_Inv /\ [][C1_Step]_vars

\* Two 404 pipes and the stream all wait on the one in-flight fetch of the
\* not-found document.
C1_Witness ==
  \E k \in DOMAIN subjects :
    /\ Pending(k)
    /\ Cardinality({s \in DOMAIN subjects :
                      subjects[s].source = "inner" /\ subjects[s].inner = k}) >= 2
    /\ Cardinality(RequestsFor(St, subjects[k].id)) = 1
    /\ \E n \in DOMAIN navs : navs[n].ret = k

\* The GET of subject k is answered in this step, with a status in S.
Answered(k, S) ==
  /\ k \in DOMAIN subjects
  /\ StatusOf(k) = 0
  /\ \E r \in RequestsOf(k) : requests'[r].status \in S

\* The statuses of a generic (non-404) failure.
GenericFailure == {resp.status : resp \in Responses} \ {200, 404}

ErrorDoc == Document(FETCHING_ERROR_ID, FETCHING_ERROR_CONTENTS)
NotFoundDoc == Document(FILE_NOT_FOUND_ID, "Document not found")

\* C2: a subject whose fetch succeeded stays the cache entry of its id; a
\* later getDocument(id) returns it, changes neither the cache nor the
\* subjects, issues no GET, and hands over the Document already latched.
C2_Inv ==
  \A k \in DOMAIN subjects :
    StatusOf(k) = 200 => Done(k) /\ cache[subjects[k].id] = k

C2_Step ==
  \A id \in Ids :
    LET k == cache[id] IN
    (k # 0 /\ Done(k) /\ StatusOf(k) = 200) =>
      /\ NavCall(id) =>
           /\ cache' = cache /\ subjects' = subjects /\ requests' = requests
           /\ navs'[Len(navs')].ret = k
           /\ emitted' = Append(emitted, [doc |-> subjects[k].value[1],
                                          nav |-> Len(navs')])
      /\ id = FILE_NOT_FOUND_ID =>
           \A s \in DOMAIN subjects : ChainCall(s) =>
             /\ cache' = cache /\ Len(requests') = Len(requests)
             /\ subjects'[s].inner = k
             /\ subjects'[s].state = "done"
             /\ subjects'[s].value = subjects[k].value
             /\ subjects'[k] = subjects[k]

C2_CacheHit == []C2_Inv /\ [][C2_Step]_vars

\* The same successful subject served two navigations with one GET.
C2_Witness ==
  \E m, n \in DOMAIN navs :
    /\ m < n
    /\ navs[m].ret = navs[n].ret
    /\ StatusOf(navs[n].ret) = 200
    /\ Len(requests) = 1
    /\ \E d, e \in DOMAIN emitted :
         /\ emitted[d].nav = m /\ emitted[e].nav = n
         /\ emitted[d].doc = emitted[e].doc

\* C3: a non-404 failure of the GET of id Y completes the subject with the
\* fetching-error Document and removes the entry of Y; the failed subject is
\* never a cache entry again, and a getDocument(Y) that finds no entry
\* issues a new GET for Y's source.
C3_Inv ==
  \A k \in DOMAIN subjects :
    StatusOf(k) \in GenericFailure =>
      /\ Done(k) /\ subjects[k].value = <<ErrorDoc>>
      /\ cache[subjects[k].id] # k

C3_Step ==
  /\ \A k \in DOMAIN subjects :
       Answered(k, GenericFailure) =>
         /\ subjects'[k].state = "done" /\ subjects'[k].value = <<ErrorDoc>>
         /\ cache'[subjects[k].id] = 0
  /\ \A id \in Ids :
       (cache[id] = 0 /\ (NavCall(id) \/ (id = FILE_NOT_FOUND_ID /\
                                          \E s \in DOMAIN subjects : ChainCall(s)))) =>
         /\ Len(requests') = Len(requests) + 1
         /\ requests'[Len(requests')] =
              [path |-> requestPath(id), subject |-> cache'[id], status |-> 0,
               body |-> ""]
         /\ cache'[id] = Len(subjects) + 1
         /\ subjects'[cache'[id]].id = id

C3_GenericFailure == []C3_Inv /\ [][C3_Step]_vars

\* An id failed with a non-404 status, was evicted and has been fetched anew.
C3_Witness ==
  \E j, k \in DOMAIN subjects :
    /\ j < k
    /\ subjects[j].id = subjects[k].id
    /\ StatusOf(j) \in GenericFailure
    /\ subjects[j].value = <<ErrorDoc>>
    /\ cache[subjects[k].id] = k
    /\ Cardinality(RequestsFor(St, subjects[k].id)) = 2

\* C4: a 404 for an id other than FILE_NOT_FOUND_ID subscribes the subject to
\* the observable getDocument(FILE_NOT_FOUND_ID) returns in that turn (the
\* entry already cached, completed or not, or the one the call creates), and
\* the subject completes exactly when, and with exactly what, that one does.
C4_Inv ==
  \A s \in DOMAIN subjects :
    (subjects[s].id # FILE_NOT_FOUND_ID /\ StatusOf(s) = 404) =>
      LET f == subjects[s].inner IN
      /\ f \in DOMAIN subjects
      /\ subjects[f].id = FILE_NOT_FOUND_ID
      /\ subjects[s].state = subjects[f].state
      /\ subjects[s].value = subjects[f].value

C4_Step ==
  \A s \in DOMAIN subjects :
    (subjects[s].id # FILE_NOT_FOUND_ID /\ Answered(s, {404})) =>
      /\ subjects'[s].inner = cache'[FILE_NOT_FOUND_ID]
      /\ cache[FILE_NOT_FOUND_ID] # 0 => subjects'[s].inner = cache[FILE_NOT_FOUND_ID]
      /\ cache[FILE_NOT_FOUND_ID] = 0 => subjects'[s].inner = Len(subjects) + 1

C4_NotFound == []C4_Inv /\ [][C4_Step]_vars

\* Two missing ids completed with the rendered not-found document that one
\* fetch of the not-found source produced.
C4_Witness ==
  \E f \in DOMAIN subjects :
    /\ subjects[f].id = FILE_NOT_FOUND_ID /\ StatusOf(f) = 200
    /\ Cardinality({s \in DOMAIN subjects :
                      /\ subjects[s].inner = f /\ StatusOf(s) = 404
                      /\ Done(s) /\ subjects[s].value = subjects[f].value}) >= 2

\* The GETs issued so far for the source of the not-found document.
NotFoundFetches == RequestsFor(St, FILE_NOT_FOUND_ID)

\* C5 as stated: in a run whose only requests for the not-found content come
\* from ids answered 404, that content is retrieved at most once.
C5_AtMostOnce ==
  (\A n \in DOMAIN navs : IdOf(navs[n].path) # FILE_NOT_FOUND_ID) =>
    Cardinality(NotFoundFetches) <= 1

\* C5, amended: the not-found content is retrieved at most once more than
\* retrievals of it have failed with a non-404 status (each such failure
\* evicts the entry, and the next need of it fetches again); any number of
\* 404s of other ids add none.
C5_OncePerEviction ==
  Cardinality(NotFoundFetches) <=
    1 + Cardinality({r \in NotFoundFetches : requests[r].status \in GenericFailure})

\* Two distinct missing ids were answered 404 and share the one retrieval of
\* the not-found content.
C5_Witness ==
  /\ Cardinality(NotFoundFetches) = 1
  /\ \E s, t \in DOMAIN subjects :
       /\ subjects[s].id # subjects[t].id
       /\ StatusOf(s) = 404 /\ StatusOf(t) = 404
       /\ subjects[s].inner = subjects[t].inner
       /\ Done(s) /\ Done(t)

\* C6 as stated: every resolution of FILE_NOT_FOUND_ID through getDocument
\* yields the built-in not-found Document and issues no GET.
C6_BuiltInWithoutFetch ==
  \A k \in DOMAIN subjects :
    subjects[k].id = FILE_NOT_FOUND_ID =>
      /\ Done(k) => subjects[k].value = <<NotFoundDoc>>
      /\ RequestsOf(k) = {}

\* C6, amended: resolving FILE_NOT_FOUND_ID through getDocument issues one GET
\* for the not-found source when the id has no entry; when that GET is
\* answered 404 the subject completes with the built-in not-found Document,
\* and that turn issues no GET and leaves the cache as it is.
C6_Inv ==
  \A k \in DOMAIN subjects :
    subjects[k].id = FILE_NOT_FOUND_ID =>
      /\ Cardinality(RequestsOf(k)) = 1
      /\ \A r \in RequestsOf(k) :
           requests[r].path = baseHref \o "content/docs/file-not-found.md"
      /\ StatusOf(k) = 404 => Done(k) /\ subjects[k].value = <<NotFoundDoc>>

C6_Step ==
  \A k \in DOMAIN subjects :
    (subjects[k].id = FILE_NOT_FOUND_ID /\ Answered(k, {404})) =>
      /\ Len(requests') = Len(requests)
      /\ cache' = cache
      /\ subjects'[k].value = <<NotFoundDoc>>

C6_NotFoundOfNotFound == []C6_Inv /\ [][C6_Step]_vars

\* The GET of the not-found source was itself answered 404, and a missing id
\* chained to it received the built-in Document.
C6_Witness ==
  \E k, s \in DOMAIN subjects :
    /\ subjects[k].id = FILE_NOT_FOUND_ID /\ StatusOf(k) = 404
    /\ subjects[k].value = <<NotFoundDoc>>
    /\ cache[FILE_NOT_FOUND_ID] = k
    /\ subjects[s].inner = k /\ subjects[s].value = <<NotFoundDoc>>

\* Number of paths the location service emits in a run checked for liveness.
MaxNavLive == 2

\* The most subjects such a run can create: one per path, and one for the
\* not-found document per 404.
MaxSubjects == 2 * MaxNavLive

NextLive ==
  \/ \E path \in Paths : Len(navs) < MaxNavLive /\ Navigate(path)
  \/ \E r \in DOMAIN requests : \E resp \in Responses : Respond(r, resp)

\* The transport answers every GET it was sent.
LiveSpec ==
  /\ Init
  /\ [][NextLive]_vars
  /\ \A r \in 1..MaxSubjects : WF_vars(\E resp \in Responses : Respond(r, resp))

\* C7: when the transport answers every GET, every subject fetchDocument
\* created completes with a Document, and no subject ever raises.
C7_NeverRaises == \A k \in DOMAIN subjects : subjects[k].state # "error"

C7_Completes ==
  /\ \A k \in 1..MaxSubjects :
       [](k \in DOMAIN subjects =>
            <>(/\ k \in DOMAIN subjects
               /\ Done(k)
               /\ Len(subjects[k].value) = 1
               /\ subjects[k].value[1] \in [id : Ids \cup {FETCHING_ERROR_ID},
                                             contents : STRING]))
  /\ []C7_NeverRaises

\* A missing id whose chained fetch of the not-found document failed with a
\* non-404 status has completed, next to ids that completed by success and
\* by a plain failure of their own fetch.
C7_Witness ==
  /\ \E s \in DOMAIN subjects :
       /\ StatusOf(s) = 404 /\ subjects[s].inner # 0
       /\ StatusOf(subjects[s].inner) \in GenericFailure
       /\ Done(s)
  /\ \E s \in DOMAIN subjects : StatusOf(s) = 200 /\ Done(s)
  /\ \A s \in DOMAIN subjects : Done(s)

\* The GETs issued for the pipe of subject k, after this step.
RequestsOfNext(k) == {r \in DOMAIN requests' : requests'[r].subject = k}

\* C8: a subject holds a value exactly when it has completed; once completed
\* it never changes and its GET is never issued again; those subscribed
\* before completion (404 pipes, the stream) are handed the value in the turn
\* it is latched, and one subscribing afterwards is handed that same value.
C8_Inv ==
  \A k \in DOMAIN subjects :
    /\ Done(k) <=> Len(subjects[k].value) = 1
    /\ Len(subjects[k].value) <= 1
    /\ Cardinality(RequestsOf(k)) = 1
    /\ SameForAll(k)

C8_Step ==
  \A k \in DOMAIN subjects :
    /\ Done(k) =>
         /\ subjects'[k] = subjects[k]
         /\ RequestsOfNext(k) = RequestsOf(k)
         /\ (Len(navs') = Len(navs) + 1 /\ navs'[Len(navs')].ret = k) =>
              emitted' = Append(emitted, [doc |-> subjects[k].value[1],
                                          nav |-> Len(navs')])
         /\ \A s \in DOMAIN subjects :
              (ChainCall(s) /\ subjects'[s].inner = k) =>
                subjects'[s].state = "done" /\ subjects'[s].value = subjects[k].value
    /\ (Pending(k) /\ subjects'[k].state = "done") =>
         /\ \A s \in DOMAIN subjects :
              (subjects[s].source = "inner" /\ subjects[s].inner = k) =>
                subjects'[s].state = "done" /\ subjects'[s].value = subjects'[k].value
         /\ \A i \in DOMAIN inners :
              inners[i].subject = k =>
                \E e \in DOMAIN emitted' :
                  /\ e > Len(emitted)
                  /\ emitted'[e] = [doc |-> subjects'[k].value[1], nav |-> inners[i].nav]

C8_Latch == []C8_Inv /\ [][C8_Step]_vars

\* One completed subject has handed its value to a 404 pipe subscribed before
\* it completed, to one subscribed after, and to the stream.
C8_Witness ==
  \E k, s, t \in DOMAIN subjects :
    /\ k < s /\ s < t
    /\ Done(k) /\ StatusOf(k) = 200
    /\ subjects[s].inner = k /\ subjects[t].inner = k
    /\ subjects[s].value = subjects[k].value /\ subjects[t].value = subjects[k].value
    /\ \E e \in DOMAIN emitted : navs[emitted[e].nav].ret = k

\* C9: for every id at most one GET is outstanding, and at most one subject
\* is live (still pending, or the entry of the cache), in every state.
Outstanding(id) == {r \in RequestsFor(St, id) : requests[r].status = 0}

Live(id) ==
  {k \in DOMAIN subjects : subjects[k].id = id /\ (Pending(k) \/ cache[id] = k)}

C9_OneAtATime ==
  \A id \in Ids :
    /\ Cardinality(Outstanding(id)) <= 1
    /\ Cardinality(Live(id)) <= 1
    /\ cache[id] # 0 => cache[id] \in DOMAIN subjects /\ subjects[cache[id]].id = id

\* An id failed with a non-404 status twice, was evicted each time and is
\* being fetched a third time.
C9_Witness ==
  \E id \in Ids :
    /\ Cardinality(RequestsFor(St, id)) = 3
    /\ Cardinality(Outstanding(id)) = 1
    /\ cache[id] # 0 /\ Pending(cache[id])

\* C10: the stream emits only in the turn that hands the Document of the
\* latest path to it, and emits exactly that Document: the Document of the
\* subject getDocument returned for the last path emitted by the location
\* service.  A subject that completes while its path is the latest is emitted.
C10_Step ==
  /\ emitted' # emitted =>
       /\ navs' # <<>>
       /\ Len(emitted') = Len(emitted) + 1
       /\ SubSeq(emitted', 1, Len(emitted)) = emitted
       /\ emitted'[Len(emitted')].nav = Len(navs')
       /\ <<emitted'[Len(emitted')].doc>> = subjects'[navs'[Len(navs')].ret].value
  /\ \A k \in DOMAIN subjects :
       (/\ Pending(k) /\ subjects'[k].state = "done"
        /\ navs # <<>> /\ navs' = navs /\ navs[Len(navs)].ret = k) =>
         emitted' # emitted

C10_Inv ==
  \A e \in DOMAIN emitted :
    /\ emitted[e].nav \in DOMAIN navs
    /\ <<emitted[e].doc>> = subjects[navs[emitted[e].nav].ret].value
    /\ \A d \in DOMAIN emitted : d < e => emitted[d].nav < emitted[e].nav

C10_SwitchToLatest == []C10_Inv /\ [][C10_Step]_vars

\* Path a, then path b, then both fetches completed with different
\* Documents: the stream has emitted b's alone.
C10_Witness ==
  /\ Len(navs) = 2
  /\ navs[1].ret # navs[2].ret
  /\ Done(navs[1].ret) /\ Done(navs[2].ret)
  /\ subjects[navs[1].ret].value # subjects[navs[2].ret].value
  /\ emitted = <<[doc |-> subjects[navs[2].ret].value[1], nav |-> 2]>>

\* The text the transport answered the GET of subject k with.
BodyOf(k) == requests[CHOOSE r \in RequestsOf(k) : TRUE].body

\* C11: a successful retrieval whose rendering is null completes the subject
\* with the fetching-error Document and evicts the id; no subject completes
\* with a Document whose contents are the null value.
C11_NullRenderIsFailure ==
  \A k \in DOMAIN subjects :
    (StatusOf(k) = 200 /\ Compile(BodyOf(k)) = Null) =>
      /\ Done(k) /\ subjects[k].value = <<ErrorDoc>>
      /\ cache[subjects[k].id] # k

\* C12: a GET answered 200 with text T whose rendering succeeds completes the
\* subject with the Document of the requested id and contents render(T); the
\* id is the one the caller asked for, not the name of the source document.
C12_RoundTrip ==
  /\ \A k \in DOMAIN subjects :
       (StatusOf(k) = 200 /\ Compile(BodyOf(k)) # Null) =>
         /\ Done(k)
         /\ subjects[k].value = <<Document(subjects[k].id, Compile(BodyOf(k)))>>
  /\ \A n \in DOMAIN navs :
       StatusOf(navs[n].ret) = 200 =>
         \A i \in DOMAIN subjects[navs[n].ret].value :
           subjects[navs[n].ret].value[i].id = IdOf(navs[n].path)

\* 'resources' was read from placeholder.md and completed as the Document of
\* 'resources' with the rendered text.
C12_Witness ==
  \E n \in DOMAIN navs :
    LET k == navs[n].ret IN
    /\ navs[n].path = "resources"
    /\ StatusOf(k) = 200 /\ BodyOf(k) = "# Title"
    /\ \E r \in RequestsOf(k) : requests[r].path = "/content/docs/placeholder.md"
    /\ subjects[k].value = <<[id |-> "resources", contents |-> "<p># Title</p>"]>>
    /\ \E e \in DOMAIN emitted : emitted[e].doc.id = "resources"

\* C13: a step changes the cache entry of an id that has one only by
\* removing it, and only in the turn in which the GET of that very entry
\* fails with a non-404 status; a success, a 404, a cache hit and a path
\* change leave every existing entry in place.
C13_Step ==
  /\ \A id \in Ids :
       (cache[id] # 0 /\ cache'[id] # cache[id]) =>
         /\ cache'[id] = 0
         /\ Answered(cache[id], GenericFailure)
  /\ \A k \in DOMAIN subjects :
       Answered(k, {200, 404}) =>
         \A id \in Ids : cache[id] # 0 => cache'[id] = cache[id]
  /\ Len(navs') # Len(navs) =>
       \A id \in Ids : cache[id] # 0 => cache'[id] = cache[id]

C13_Inv ==
  \A k \in DOMAIN subjects :
    cache[subjects[k].id] # k => StatusOf(k) \in GenericFailure

C13_EvictionOnlyOnGenericFailure == []C13_Inv /\ [][C13_Step]_vars

\* One id succeeded, one was answered 404 and completed, one failed with a
\* non-404 status: only the last has lost its entry.
C13_Witness ==
  \E a, b, c \in DOMAIN subjects :
    /\ StatusOf(a) = 200 /\ cache[subjects[a].id] = a
    /\ StatusOf(b) = 404 /\ Done(b) /\ cache[subjects[b].id] = b
    /\ StatusOf(c) \in GenericFailure /\ cache[subjects[c].id] = 0

\* The source document of an id as C14 states it.
StatedSource(id) ==
  IF id \in DOMAIN indexMap THEN indexMap[id]
  ELSE IF id \in {"resources", "events"} THEN "placeholder"
  ELSE id

\* C14: every path resolves to the id `path or "index"`, and the GET of that
\* id goes to baseHref + "content/docs/" + source + ".md", the source being
\* the alias of an alias key, "placeholder" for a placeholder id, and the id
\* itself otherwise.
C14_Resolution ==
  \A n \in DOMAIN navs :
    LET id == IF navs[n].path = "" THEN "index" ELSE navs[n].path
        k  == navs[n].ret
    IN  /\ subjects[k].id = id
        /\ \A r \in RequestsOf(k) :
             requests[r].path = baseHref \o "content/docs/" \o StatedSource(id) \o ".md"

\* C14 on the ids that are not names of inherited properties: there the code
\* resolves as stated.
C14_ResolutionOfOwnNames ==
  \A n \in DOMAIN navs :
    LET id == IF navs[n].path = "" THEN "index" ELSE navs[n].path
        k  == navs[n].ret
    IN  /\ subjects[k].id = id
        /\ id \notin DOMAIN ObjectPrototype =>
             \A r \in RequestsOf(k) :
               requests[r].path =
                 baseHref \o "content/docs/" \o StatedSource(id) \o ".md"

\* The stream switched away from the n-th path while its fetch was in flight:
\* the next path was given another subject and nothing was emitted for the
\* n-th (a subject completed while its path is the latest is emitted).
Abandoned(n) ==
  /\ n \in DOMAIN navs
  /\ n < Len(navs)
  /\ navs[n + 1].ret # navs[n].ret
  /\ \A e \in DOMAIN emitted : emitted[e].nav # n

\* C15 as stated: the fetch of an abandoned path keeps its cache entry.
C15_StaysPopulated ==
  \A n \in DOMAIN navs :
    Abandoned(n) => cache[subjects[navs[n].ret].id] = navs[n].ret

\* C15, amended: a path change leaves every subject, every GET and every
\* cache entry as they were, so the abandoned fetch stays outstanding until
\* answered; unless it fails with a non-404 status (which evicts it like any
\* fetch) its subject stays the cache entry, and a later getDocument of the
\* id returns it without a GET.
C15_Inv ==
  \A n \in DOMAIN navs :
    LET k == navs[n].ret IN
    Abandoned(n) =>
      /\ (Pending(k) /\ subjects[k].source = "http") => StatusOf(k) = 0
      /\ StatusOf(k) \notin GenericFailure => cache[subjects[k].id] = k
      /\ (StatusOf(k) # 0 /\ ~Done(k)) =>
           /\ StatusOf(k) = 404
           /\ subjects[k].inner # 0
           /\ StatusOf(subjects[k].inner) = 0

C15_Step ==
  /\ Len(navs') # Len(navs) =>
       /\ \A k \in DOMAIN subjects : subjects'[k] = subjects[k]
       /\ \A r \in DOMAIN requests : requests'[r] = requests[r]
       /\ \A id \in Ids : cache[id] # 0 => cache'[id] = cache[id]
  /\ \A id \in Ids :
       (NavCall(id) /\ cache[id] # 0) =>
         /\ navs'[Len(navs')].ret = cache[id]
         /\ requests' = requests

C15_NotAborted == []C15_Inv /\ [][C15_Step]_vars

\* Path a was abandoned for another path while its fetch was in flight; the
\* fetch succeeded, and a later return to a was served by the same subject
\* with the one GET.
C15_Witness ==
  \E m, n \in DOMAIN navs :
    LET k == navs[m].ret IN
    /\ m + 1 < n
    /\ Abandoned(m)
    /\ navs[n].ret = k
    /\ StatusOf(k) = 200
    /\ Cardinality(RequestsFor(St, subjects[k].id)) = 1
    /\ \E e \in DOMAIN emitted :
         emitted[e].nav = n /\ <<emitted[e].doc>> = subjects[k].value

\* The subjects of ids other than FILE_NOT_FOUND_ID whose GET was answered 404.
Missing ==
  {s \in DOMAIN subjects : subjects[s].id # FILE_NOT_FOUND_ID /\ StatusOf(s) = 404}

\* C16: a 404 of the not-found source itself completes its subject in that
\* turn with the built-in Document, creating no subject, issuing no GET and
\* leaving the cache as it is.  Recovery is one level deep: only the 404 of
\* another id issues a GET, for the not-found source, and that subject is
\* never chained further; a run of n paths issues at most 2n GETs.
C16_Step ==
  /\ \A k \in DOMAIN subjects :
       (subjects[k].id = FILE_NOT_FOUND_ID /\ Answered(k, {404})) =>
         /\ subjects'[k] = [subjects[k] EXCEPT !.state = "done",
                                               !.value = <<NotFoundDoc>>,
                                               !.source = "none"]
         /\ Len(subjects') = Len(subjects)
         /\ Len(requests') = Len(requests)
         /\ cache' = cache
  /\ \A k \in DOMAIN subjects :
       (Answered(k, {200, 404} \cup GenericFailure) /\ Len(requests') # Len(requests)) =>
         /\ subjects[k].id # FILE_NOT_FOUND_ID
         /\ Answered(k, {404})
         /\ Len(requests') = Len(requests) + 1
         /\ requests'[Len(requests')].path = requestPath(FILE_NOT_FOUND_ID)

C16_Inv ==
  /\ \A s \in DOMAIN subjects :
       subjects[s].inner # 0 =>
         /\ subjects[s].id # FILE_NOT_FOUND_ID
         /\ subjects[subjects[s].inner].id = FILE_NOT_FOUND_ID
         /\ subjects[subjects[s].inner].inner = 0
  /\ Len(requests) <= Len(navs) + Cardinality(Missing)
  /\ Len(requests) <= 2 * Len(navs)

C16_OneLevelRecovery == []C16_Inv /\ [][C16_Step]_vars

\* A missing id started the not-found fetch, which was itself answered 404:
\* two GETs in all, and both subjects hold the built-in Document.
C16_Witness ==
  \E s, f \in DOMAIN subjects :
    /\ s \in Missing
    /\ subjects[s].inner = f /\ s < f
    /\ StatusOf(f) = 404
    /\ subjects[f].value = <<NotFoundDoc>> /\ subjects[s].value = <<NotFoundDoc>>
    /\ Len(navs) = 1 /\ Len(requests) = 2 /\ Len(subjects) = 2
    /\ cache[FILE_NOT_FOUND_ID] = f /\ cache[subjects[s].id] = s

\* C17: the cache is keyed by the requested id: the entry of an id is a
\* subject created for that id, a getDocument of an id without entry issues a
\* GET even when another id read from the same source has one, and every
\* Document of a successful fetch carries the id it was requested under.
C17_Inv ==
  /\ \A id \in Ids : cache[id] # 0 => subjects[cache[id]].id = id
  /\ \A n \in DOMAIN navs : subjects[navs[n].ret].id = IdOf(navs[n].path)
  /\ \A k \in DOMAIN subjects :
       StatusOf(k) = 200 => subjects[k].value = <<map(subjects[k].id, BodyOf(k))>>
  /\ \A j, k \in DOMAIN subjects :
       (j # k /\ subjects[j].id # subjects[k].id) => RequestsOf(j) # RequestsOf(k)

C17_Step ==
  \A id \in Ids :
    (NavCall(id) /\ cache[id] = 0) =>
      /\ Len(requests') = Len(requests) + 1
      /\ requests'[Len(requests')].path = requestPath(id)
      /\ subjects'[requests'[Len(requests')].subject].id = id
      /\ \A other \in Ids \ {id} : cache'[other] = cache[other]

C17_KeyedById == []C17_Inv /\ [][C17_Step]_vars

\* 'resources' and 'events' each have their own entry, each was read from
\* placeholder.md by its own GET, and each Document carries its own id.
C17_Witness ==
  LET a == cache["resources"]
      b == cache["events"]
  IN  /\ a # 0 /\ b # 0 /\ a # b
      /\ StatusOf(a) = 200 /\ StatusOf(b) = 200
      /\ \A r \in RequestsOf(a) \cup RequestsOf(b) :
           requests[r].path = "/content/docs/placeholder.md"
      /\ Cardinality(RequestsOf(a) \cup RequestsOf(b)) = 2
      /\ subjects[a].value = <<[id |-> "resources", contents |-> "<p># Title</p>"]>>
      /\ subjects[b].value = <<[id |-> "events", contents |-> "<p># Title</p>"]>>

\* C18: no cache entry holds a subject latched with the fetching-error
\* Document: an id whose subject completed with it has no entry (or a newer
\* one), also when the failure was that of the chained not-found fetch.
C18_NoCachedFailure ==
  \A id \in Ids :
    (cache[id] # 0 /\ Done(cache[id])) =>
      subjects[cache[id]].value # <<ErrorDoc>>

\* C19: in the turn in which the GET of subject k fails with a non-404
\* status, the entry getErrorDoc deletes is k itself; no later subject of the
\* id exists yet, none is stored by that turn, and afterwards the id has no
\* entry and no subject of it is still pending.
C19_Step ==
  \A k \in DOMAIN subjects :
    Answered(k, GenericFailure) =>
      LET id == subjects[k].id IN
      /\ cache[id] = k
      /\ \A j \in DOMAIN subjects : subjects[j].id = id => j <= k
      /\ cache'[id] = 0
      /\ \A j \in DOMAIN subjects' : subjects'[j].id = id => subjects'[j].state # "pending"

C19_Inv ==
  \A id \in Ids :
    /\ cache[id] = 0 =>
         \A j \in DOMAIN subjects :
           subjects[j].id = id => StatusOf(j) \in GenericFailure
    /\ cache[id] # 0 =>
         \A j \in DOMAIN subjects : subjects[j].id = id => j <= cache[id]

C19_EvictsOwnEntry == []C19_Inv /\ [][C19_Step]_vars

\* An id failed with a non-404 status twice; each failure removed the entry
\* of the failing fetch, and the id has no entry now.
C19_Witness ==
  \E j, k \in DOMAIN subjects :
    /\ j < k
    /\ subjects[j].id = subjects[k].id
    /\ StatusOf(j) \in GenericFailure /\ StatusOf(k) \in GenericFailure
    /\ cache[subjects[k].id] = 0

====
